---- MODULE Spec2Model ----
(***************************************************************************)
(* ContentTypeWriter of the MSIX packaging library: the writer of the      *)
(* [Content_Types].xml part (Default / Override declarations), driven      *)
(* through an XmlWriter.  The extension split, the lower-casing and the    *)
(* text search of the reopening constructor are computed character by      *)
(* character on the strings.                                               *)
(***************************************************************************)
EXTENDS Integers, Sequences, FiniteSets, TLC

\* ------------------------------------------------------------------ bounds
\* AddContentType calls over a whole run (all sessions together)
MaxCalls == 2
\* writer sessions of a run: the fresh one and the reopened ones
MaxPasses == 2
\* Close calls in one session
MaxCloses == 2
\* Add and Get calls on one SHA256 hasher, after its construction
MaxShaOps == 3
\* SHA256::ComputeHash calls of a run
MaxComputes == 1

\* --------------------------------------------------------------- constants
typesElement == "Types"
typesNamespace == "http://schemas.openxmlformats.org/package/2006/content-types"
defaultElement == "Default"
contentTypeAttribute == "ContentType"
extensionAttribute == "Extension"
overrideElement == "Override"
partNameAttribute == "PartName"
xmlnsAttribute == "xmlns"
APPXSIGNATURE_P7X == "AppxSignature.p7x"
CODEINTEGRITY_CAT == "AppxMetadata/CodeIntegrity.cat"

\* ----------------------------------------------------------------- strings
UpperCase == "ABCDEFGHIJKLMNOPQRSTUVWXYZ"
LowerCase == "abcdefghijklmnopqrstuvwxyz"

\* s[i], for a 1-based i
At(s, i) == SubSeq(s, i, i)

\* the lower-case letter of each upper-case letter of the C locale
LowerOf ==
    [c \in {At(UpperCase, i) : i \in 1..Len(UpperCase)} |->
        At(LowerCase, CHOOSE i \in 1..Len(UpperCase) : At(UpperCase, i) = c)]

\* ::tolower on one character of the C locale
tolower(c) == IF c \in DOMAIN LowerOf THEN LowerOf[c] ELSE c

\* std::transform(ext.begin(), ext.end(), ext.begin(), ::tolower)
RECURSIVE ToLowerStr(_)
ToLowerStr(s) == IF s = "" THEN "" ELSE tolower(At(s, 1)) \o ToLowerStr(Tail(s))

\* std::string::npos, the value find_last_of and rfind return for "not found"
npos == -1

\* name.find_last_of("."): the 0-based index of the last c, or npos
find_last_of(s, c) ==
    IF \E i \in 1..Len(s) : At(s, i) = c
    THEN (CHOOSE i \in 1..Len(s) : At(s, i) = c /\ \A j \in (i+1)..Len(s) : At(s, j) # c) - 1
    ELSE npos

\* pos + 1 in size_t arithmetic: npos is the largest size_t, so npos + 1 wraps to 0
SizeSucc(pos) == IF pos = npos THEN 0 ELSE pos + 1

\* s.substr(pos): the characters from 0-based index pos to the end
substr(s, pos) == SubSeq(s, pos + 1, Len(s))

\* sourceXml.rfind(p): the 0-based index of the last occurrence of p, or npos
rfind(s, p) ==
    LET hits == {i \in 1..(Len(s) - Len(p) + 1) : SubSeq(s, i, i + Len(p) - 1) = p}
    IN  IF hits = {} THEN npos
        ELSE (CHOOSE i \in hits : \A j \in hits : j <= i) - 1

\* ---------------------------------------------------------------- XmlWriter
\* XmlWriter::State
OpenElement == "OpenElement"
ClosedElement == "ClosedElement"
Finish == "Finish"

\* One call made on the writer, as it is kept in the writer's output
Ev(op, name, value) == [op |-> op, name |-> name, value |-> value]

\* A writer: its state, the stack of open elements, the output written so
\* far (as the sequence of writer calls that produced it), and whether the
\* last call threw.  A call on a writer that has thrown is skipped: the
\* exception is propagating.
XmlWriterNew(root) ==
    [m_state |-> OpenElement, m_elements |-> <<root>>,
     m_out |-> <<Ev("Start", root, "")>>, thrown |-> FALSE]

StartElement(w, name) ==
    IF w.thrown THEN w
    ELSE IF w.m_state = Finish THEN [w EXCEPT !.thrown = TRUE]
    ELSE [w EXCEPT !.m_elements = Append(@, name),
                   !.m_state = OpenElement,
                   !.m_out = Append(@, Ev("Start", name, ""))]

AddAttribute(w, name, value) ==
    IF w.thrown THEN w
    ELSE IF w.m_state # OpenElement THEN [w EXCEPT !.thrown = TRUE]
    ELSE [w EXCEPT !.m_out = Append(@, Ev("Attr", name, value))]

CloseElement(w) ==
    IF w.thrown THEN w
    ELSE IF w.m_state = Finish THEN [w EXCEPT !.thrown = TRUE]
    ELSE [w EXCEPT !.m_elements = SubSeq(@, 1, Len(@) - 1),
                   !.m_state = IF Len(w.m_elements) = 1 THEN Finish ELSE ClosedElement,
                   !.m_out = Append(@, Ev("Close", "", ""))]

\* XmlWriter::Initialize(source, root): resume inside the root of an existing
\* document, every child it holds kept, the root left open for more children
Initialize(source, root) ==
    [m_state |-> ClosedElement, m_elements |-> <<root>>,
     m_out |-> SubSeq(source, 1, Len(source) - 1), thrown |-> FALSE]

\* The text of the output: "<name" for a start (after ">" when it opens a
\* child of an element whose tag is still open), " name="value"" for an
\* attribute, "/>" for the close of an element without children and
\* "</name>" otherwise.
RECURSIVE TextFrom(_, _, _, _)
TextFrom(out, i, open, stack) ==
    IF i > Len(out) THEN ""
    ELSE LET e == out[i] IN
         CASE e.op = "Start" ->
                (IF open THEN ">" ELSE "") \o "<" \o e.name
                    \o TextFrom(out, i + 1, TRUE, Append(stack, e.name))
           [] e.op = "Attr" ->
                " " \o e.name \o "=\"" \o e.value \o "\""
                    \o TextFrom(out, i + 1, open, stack)
           [] OTHER ->
                (IF open THEN "/>" ELSE "</" \o stack[Len(stack)] \o ">")
                    \o TextFrom(out, i + 1, FALSE, SubSeq(stack, 1, Len(stack) - 1))

\* Helper::CreateStringFromStream on the stream of a written document
CreateStringFromStream(out) == TextFrom(out, 1, FALSE, <<>>)

\* ------------------------------------------------------- ContentTypeWriter
VARIABLES
    m_xmlWriter,            \* the XmlWriter of the session
    m_defaultExtensions,    \* std::map ext -> content type, as a set of <<ext, type>>
    m_hasSignatureOverride, \* the signature override was in the reopened document
    m_hasCIOverride,        \* the code-integrity override was in the reopened document
    baseLen,                \* how much of m_xmlWriter.m_out the session inherited
    stream,                 \* the document the session's constructor was given (none: fresh)
    calls,                  \* the AddContentType calls of the session, with what each did
                            \* and the state of the XmlWriter each found
    closes,                 \* the Close calls of the session: TRUE for one that threw
    nCalls,                 \* AddContentType calls of the run
    passes,                 \* sessions of the run
    context,                \* SHA256::context of one hasher: NoContext once released
    shaLog,                 \* the Add and Get calls on that hasher, with what each did
    computes                \* the SHA256::ComputeHash calls, with what each did

shaVars == <<context, shaLog, computes>>

vars == <<m_xmlWriter, m_defaultExtensions, m_hasSignatureOverride, m_hasCIOverride,
          baseLen, stream, calls, closes, nCalls, passes, context, shaLog, computes>>

\* The object: the fields of a ContentTypeWriter
Self == [xml |-> m_xmlWriter, tbl |-> m_defaultExtensions,
         sig |-> m_hasSignatureOverride, ci |-> m_hasCIOverride]

\* m_defaultExtensions.find(ext) != end()
Found(tbl, ext) == \E p \in tbl : p[1] = ext
\* find->second
Second(tbl, ext) == (CHOOSE p \in tbl : p[1] = ext)[2]
\* (mutant) an emplace that inserts nothing
EmplaceNothing(tbl, ext, contentType) == tbl

\* m_defaultExtensions.emplace(ext, contentType): no insertion when the key is there
Emplace(tbl, ext, contentType) ==
    IF Found(tbl, ext) THEN tbl ELSE tbl \cup {<<ext, contentType>>}

\* (mutant) the search string without the leading '/' of the part name
GetPartNameSearchStringNoSlash(fileName) == "\"" \o fileName \o "\""

\* "\"/" + fileName + '"'
GetPartNameSearchString(fileName) == "\"/" \o fileName \o "\""

\* (mutant) a Default whose attributes are written extension first
AddDefaultExtensionFirst(w, ext, contentType) ==
    CloseElement(
        AddAttribute(
            AddAttribute(StartElement(w, defaultElement), extensionAttribute, ext),
            contentTypeAttribute, contentType))

AddDefault(w, ext, contentType) ==
    CloseElement(
        AddAttribute(
            AddAttribute(StartElement(w, defaultElement), contentTypeAttribute, contentType),
            extensionAttribute, ext))

\* (mutant) an Override that is left open
AddOverrideLeftOpen(w, file, contentType) ==
    LET partName == "/" \o file IN
    AddAttribute(
        AddAttribute(StartElement(w, overrideElement), contentTypeAttribute, contentType),
        partNameAttribute, partName)

AddOverride(w, file, contentType) ==
    LET partName == "/" \o file IN
    CloseElement(
        AddAttribute(
            AddAttribute(StartElement(w, overrideElement), contentTypeAttribute, contentType),
            partNameAttribute, partName))

\* (mutant) the extension as it is written in the name, case kept
ExtOfCaseKept(name) == substr(name, SizeSucc(find_last_of(name, ".")))

\* (mutant) a name without '.' has the empty extension
ExtOfEmptyWithoutDot(name) ==
    IF find_last_of(name, ".") = npos THEN ""
    ELSE ToLowerStr(substr(name, SizeSucc(find_last_of(name, "."))))

\* std::string ext = name.substr(name.find_last_of(".") + 1), then lower-cased
ExtOf(name) == ToLowerStr(substr(name, SizeSucc(find_last_of(name, "."))))

\* (mutant) either flag stops either well-known part
IsSkippedAnyFlag(self, name) ==
    (name = APPXSIGNATURE_P7X \/ name = CODEINTEGRITY_CAT) /\ (self.sig \/ self.ci)

\* (mutant) the guard never stops a call
IsSkippedNever(self, name) == FALSE

\* The guard of the well-known parts
IsSkipped(self, name) ==
    \/ name = APPXSIGNATURE_P7X /\ self.sig
    \/ name = CODEINTEGRITY_CAT /\ self.ci

\* (mutant) a conflicting type is declared as the extension's Default again
ResolveRedeclares(self, name, contentType) ==
    LET ext == ExtOf(name) IN
    IF Found(self.tbl, ext) /\ Second(self.tbl, ext) = contentType THEN self
    ELSE LET w == AddDefault(self.xml, ext, contentType) IN
         [self EXCEPT !.xml = w, !.tbl = self.tbl \cup {<<ext, contentType>>}]

\* (mutant) a conflicting type gets its Override and replaces the table entry
ResolveReplaces(self, name, contentType) ==
    LET ext == ExtOf(name) IN
    IF Found(self.tbl, ext)
    THEN IF Second(self.tbl, ext) # contentType
         THEN [self EXCEPT !.xml = AddOverride(self.xml, name, contentType),
                           !.tbl = {p \in self.tbl : p[1] # ext} \cup {<<ext, contentType>>}]
         ELSE self
    ELSE [self EXCEPT !.xml = AddDefault(self.xml, ext, contentType),
                      !.tbl = Emplace(self.tbl, ext, contentType)]

\* The extension branch of AddContentType
ResolveByExtension(self, name, contentType) ==
    LET ext == ExtOf(name) IN
    IF Found(self.tbl, ext)
    THEN IF Second(self.tbl, ext) # contentType
         THEN [self EXCEPT !.xml = AddOverride(self.xml, name, contentType)]
         ELSE self
    ELSE LET w == AddDefault(self.xml, ext, contentType) IN
         IF w.thrown THEN [self EXCEPT !.xml = w]
         ELSE [self EXCEPT !.xml = w, !.tbl = Emplace(self.tbl, ext, contentType)]

\* (mutant) forceOverride is honoured only while the extension is not in the table
AddContentTypeForceLate(self, name, contentType, forceOverride) ==
    IF IsSkipped(self, name) THEN self
    ELSE IF forceOverride /\ ~Found(self.tbl, ExtOf(name))
         THEN [self EXCEPT !.xml = AddOverride(self.xml, name, contentType)]
         ELSE ResolveByExtension(self, name, contentType)

\* (mutant) a well-known part that got its forced Override has its flag set
AddContentTypeMarks(self, name, contentType, forceOverride) ==
    IF IsSkipped(self, name) THEN self
    ELSE IF forceOverride
         THEN [self EXCEPT !.xml = AddOverride(self.xml, name, contentType),
                           !.sig = @ \/ name = APPXSIGNATURE_P7X,
                           !.ci = @ \/ name = CODEINTEGRITY_CAT]
         ELSE ResolveByExtension(self, name, contentType)

\* ContentTypeWriter::AddContentType: the object after the call
AddContentTypeOn(self, name, contentType, forceOverride) ==
    IF IsSkipped(self, name) THEN self
    ELSE IF forceOverride
         THEN [self EXCEPT !.xml = AddOverride(self.xml, name, contentType)]
         ELSE ResolveByExtension(self, name, contentType)

\* (mutant) a Close that leaves a finished writer alone and reports success
CloseLenient(w) ==
    IF w.m_state = Finish THEN w ELSE CloseElement(w)

\* ContentTypeWriter::Close: the writer after the call; it throws when
\* CloseElement throws or when the writer is not in Finish afterwards
CloseOn(w) ==
    LET c == CloseElement(w) IN
    IF c.thrown THEN c
    ELSE [c EXCEPT !.thrown = (c.m_state # Finish)]

\* ------------------------------------------------------------------ SHA256
\* the released context (context.reset()); also what is left of a
\* construction that threw: no hasher to call
NoContext == [live |-> FALSE, data |-> <<>>]

\* the context a completed constructor leaves: a hash object that has been
\* fed nothing
NewContext == [live |-> TRUE, data |-> <<>>]

\* the caller's hash buffer: untouched, resized by Get, and holding what
\* BCryptFinishHash gives for the data fed to the hash object
NoHash == [alg |-> "", of |-> <<>>, resized |-> FALSE]
Resized == [alg |-> "", of |-> <<>>, resized |-> TRUE]
Digest(data) == [alg |-> "SHA256", of |-> data, resized |-> TRUE]

\* A hasher while a member function runs: its context, whether the call
\* threw, whether the hashing call of the platform was made, and the hash
\* buffer of the caller
Hasher(ctx) == [context |-> ctx, thrown |-> FALSE, called |-> FALSE, hash |-> NoHash]

\* the checks of the constructor, in the order it makes them; NoExit: all pass
NoExit == "none"
CtorExits == {"BCryptOpenAlgorithmProvider", "BCryptGetProperty",
              "resultLength", "BCryptCreateHash"}

\* SHA256::SHA256(); exit is the check that fails, if one does: the
\* constructor throws there and no hasher exists
SHA256New(exit) ==
    IF exit = NoExit THEN Hasher(NewContext)
    ELSE [Hasher(NoContext) EXCEPT !.thrown = TRUE]

\* a size_t of a 64-bit build, as its two 32-bit words: hi * 2^32 + lo
SizeT(hi, lo) == [hi |-> hi, lo |-> lo]

\* static_cast<ULONG>(cbBuffer): the low 32 bits
ToULONG(cb) == cb.lo

\* SHA256::EnsureNotFinished: throws once the context has been released
EnsureNotFinished(h) ==
    IF h.thrown THEN h
    ELSE IF ~h.context.live THEN [h EXCEPT !.thrown = TRUE]
    ELSE h

\* SHA256::Add; buffer is the bytes at the pointer (its leading ones, for a
\* buffer of 2^32 bytes or more), cbBuffer its size, ok the status
\* BCryptHashData returns.  BCryptHashData is handed the size as a ULONG.
ShaAddOn(h, buffer, cbBuffer, ok) ==
    LET e == [EnsureNotFinished(h) EXCEPT !.called = FALSE] IN
    IF e.thrown THEN e
    ELSE IF ~ok THEN [e EXCEPT !.called = TRUE, !.thrown = TRUE]
    ELSE [e EXCEPT !.called = TRUE,
                   !.context.data = @ \o SubSeq(buffer, 1, ToULONG(cbBuffer))]

\* (mutant) a Get that keeps the context
ShaGetKeepsContext(h, ok) ==
    LET e == [EnsureNotFinished(h) EXCEPT !.called = FALSE] IN
    IF e.thrown THEN e
    ELSE IF ~ok THEN [e EXCEPT !.called = TRUE, !.thrown = TRUE, !.hash = Resized]
    ELSE [e EXCEPT !.called = TRUE, !.hash = Digest(e.context.data)]

\* SHA256::Get; ok is the status BCryptFinishHash returns.  The hash buffer
\* is resized before BCryptFinishHash is called.
ShaGetOn(h, ok) ==
    LET e == [EnsureNotFinished(h) EXCEPT !.called = FALSE] IN
    IF e.thrown THEN e
    ELSE IF ~ok THEN [e EXCEPT !.called = TRUE, !.thrown = TRUE, !.hash = Resized]
    ELSE [e EXCEPT !.called = TRUE, !.hash = Digest(e.context.data),
                   !.context = NoContext]

\* SHA256::ComputeHash: the steps on its own hasher, in order, up to the
\* first that throws.  cbBuffer is a std::uint32_t: as a size_t its high
\* word is zero.
ComputeHashSteps(buffer, cbBuffer, exit, okAdd, okGet) ==
    LET n == SHA256New(exit)
        a == ShaAddOn(n, buffer, SizeT(0, cbBuffer), okAdd)
        g == ShaGetOn(a, okGet)
    IN  IF n.thrown THEN << [op |-> "New", h |-> n] >>
        ELSE IF a.thrown THEN << [op |-> "New", h |-> n], [op |-> "Add", h |-> a] >>
        ELSE << [op |-> "New", h |-> n], [op |-> "Add", h |-> a], [op |-> "Get", h |-> g] >>

Buffers == { <<1>>, <<2, 3>> }

\* the sizes Add is given with a buffer: the buffer's length, and, for the
\* longer buffer, 2^32 bytes more (its leading bytes being the buffer's)
AddSizes(buffer) ==
    {SizeT(0, Len(buffer))} \cup
    (IF Len(buffer) > 1 THEN {SizeT(1, Len(buffer))} ELSE {})

\* a hasher has been constructed: member functions can be called on it
Constructed == \E i \in 1..Len(shaLog) : shaLog[i].op = "New" /\ ~shaLog[i].thrown

\* the construction of the hasher of the run
ShaNew(exit) ==
    /\ shaLog = <<>>
    /\ LET r == SHA256New(exit) IN
       /\ context' = r.context
       /\ shaLog' = Append(shaLog,
             [op |-> "New", buffer |-> <<>>, cbBuffer |-> SizeT(0, 0),
              finished |-> FALSE, thrown |-> r.thrown, called |-> r.called,
              ok |-> (exit = NoExit), hash |-> r.hash])
    /\ UNCHANGED <<m_xmlWriter, m_defaultExtensions, m_hasSignatureOverride,
                   m_hasCIOverride, baseLen, stream, calls, closes, nCalls, passes, computes>>

ShaAdd(buffer, cbBuffer, ok) ==
    /\ Constructed
    /\ Len(shaLog) <= MaxShaOps
    /\ LET r == ShaAddOn(Hasher(context), buffer, cbBuffer, ok) IN
       /\ context' = r.context
       /\ shaLog' = Append(shaLog,
             [op |-> "Add", buffer |-> buffer, cbBuffer |-> cbBuffer,
              finished |-> ~context.live,
              thrown |-> r.thrown, called |-> r.called, ok |-> ok, hash |-> r.hash])
    /\ UNCHANGED <<m_xmlWriter, m_defaultExtensions, m_hasSignatureOverride,
                   m_hasCIOverride, baseLen, stream, calls, closes, nCalls, passes, computes>>

ShaGet(ok) ==
    /\ Constructed
    /\ Len(shaLog) <= MaxShaOps
    /\ LET r == ShaGetOn(Hasher(context), ok) IN
       /\ context' = r.context
       /\ shaLog' = Append(shaLog,
             [op |-> "Get", buffer |-> <<>>, cbBuffer |-> SizeT(0, 0),
              finished |-> ~context.live,
              thrown |-> r.thrown, called |-> r.called, ok |-> ok, hash |-> r.hash])
    /\ UNCHANGED <<m_xmlWriter, m_defaultExtensions, m_hasSignatureOverride,
                   m_hasCIOverride, baseLen, stream, calls, closes, nCalls, passes, computes>>

ShaComputeHash(buffer, exit, okAdd, okGet) ==
    /\ Len(computes) < MaxComputes
    /\ LET steps == ComputeHashSteps(buffer, Len(buffer), exit, okAdd, okGet)
           last == steps[Len(steps)].h
       IN computes' = Append(computes,
             [buffer |-> buffer,
              ops |-> [k \in 1..Len(steps) |-> steps[k].op],
              thrown |-> last.thrown,
              returned |-> ~last.thrown,
              hash |-> last.hash,
              whileFinished |-> Constructed /\ ~context.live])
    /\ UNCHANGED <<m_xmlWriter, m_defaultExtensions, m_hasSignatureOverride,
                   m_hasCIOverride, baseLen, stream, calls, closes, nCalls, passes,
                   context, shaLog>>

\* ------------------------------------------------------------------ inputs
NameA == "a.png"
NameB == "b.PNG"
Names == {NameA, NameB, APPXSIGNATURE_P7X, CODEINTEGRITY_CAT}

TypePng == "image/png"
\* a content type that reads like the part name of the signature
TypeOdd == "/AppxSignature.p7x"
ContentTypes == {TypePng, TypeOdd}

\* ----------------------------------------------------------------- actions
\* (mutant) a fresh writer whose root has no namespace attribute
FreshWriterBare == XmlWriterNew(typesElement)

\* ContentTypeWriter::ContentTypeWriter(): the fresh writer
FreshWriter == AddAttribute(XmlWriterNew(typesElement), xmlnsAttribute, typesNamespace)

Init ==
    /\ m_xmlWriter = FreshWriter
    /\ m_defaultExtensions = {}
    /\ m_hasSignatureOverride = FALSE
    /\ m_hasCIOverride = FALSE
    /\ baseLen = Len(FreshWriter.m_out)
    /\ stream = <<>>
    /\ calls = <<>>
    /\ closes = <<>>
    /\ nCalls = 0
    /\ passes = 1
    /\ context = NoContext
    /\ shaLog = <<>>
    /\ computes = <<>>

\* ContentTypeWriter::AddContentType, in whatever state the writer is: on a
\* closed document the call still runs, and it throws where it reaches the
\* XmlWriter.  The exception leaves the object as it was.
AddContentType(name, contentType, forceOverride) ==
    /\ nCalls < MaxCalls
    /\ LET r == AddContentTypeOn(Self, name, contentType, forceOverride) IN
       /\ m_xmlWriter' = [r.xml EXCEPT !.thrown = FALSE]
       /\ m_defaultExtensions' = r.tbl
       /\ m_hasSignatureOverride' = r.sig
       /\ m_hasCIOverride' = r.ci
       /\ calls' = Append(calls,
             [name |-> name, contentType |-> contentType, forceOverride |-> forceOverride,
              from |-> Len(m_xmlWriter.m_out), to |-> Len(r.xml.m_out),
              tblBefore |-> m_defaultExtensions, tblAfter |-> r.tbl,
              sigBefore |-> m_hasSignatureOverride, ciBefore |-> m_hasCIOverride,
              sigAfter |-> r.sig, ciAfter |-> r.ci,
              state |-> m_xmlWriter.m_state,
              thrown |-> r.xml.thrown])
    /\ nCalls' = nCalls + 1
    /\ UNCHANGED <<baseLen, stream, closes, passes, shaVars>>

Close ==
    /\ Len(closes) < MaxCloses
    /\ LET c == CloseOn(m_xmlWriter) IN
       /\ m_xmlWriter' = [c EXCEPT !.thrown = FALSE]
       /\ closes' = Append(closes, c.thrown)
    /\ UNCHANGED <<m_defaultExtensions, m_hasSignatureOverride, m_hasCIOverride,
                   baseLen, stream, calls, nCalls, passes, shaVars>>

\* (mutant) a reopening that starts the document anew
ReopenFromScratch ==
    /\ passes < MaxPasses
    /\ m_xmlWriter.m_state = Finish
    /\ LET sourceXml == CreateStringFromStream(m_xmlWriter.m_out) IN
       /\ m_hasSignatureOverride' =
             (rfind(sourceXml, GetPartNameSearchString(APPXSIGNATURE_P7X)) # npos)
       /\ m_hasCIOverride' =
             (rfind(sourceXml, GetPartNameSearchString(CODEINTEGRITY_CAT)) # npos)
    /\ m_xmlWriter' = FreshWriter
    /\ m_defaultExtensions' = {}
    /\ baseLen' = Len(FreshWriter.m_out)
    /\ stream' = m_xmlWriter.m_out
    /\ calls' = <<>>
    /\ closes' = <<>>
    /\ passes' = passes + 1
    /\ UNCHANGED <<nCalls, shaVars>>

\* ContentTypeWriter::ContentTypeWriter(IStream*) on the stream of the
\* document the previous session closed
Reopen ==
    /\ passes < MaxPasses
    /\ m_xmlWriter.m_state = Finish
    /\ LET sourceXml == CreateStringFromStream(m_xmlWriter.m_out)
           signaturePartNameSearch == GetPartNameSearchString(APPXSIGNATURE_P7X)
           ciPartNameSearch == GetPartNameSearchString(CODEINTEGRITY_CAT)
       IN /\ m_hasSignatureOverride' = (rfind(sourceXml, signaturePartNameSearch) # npos)
          /\ m_hasCIOverride' = (rfind(sourceXml, ciPartNameSearch) # npos)
          /\ m_xmlWriter' = Initialize(m_xmlWriter.m_out, typesElement)
    /\ m_defaultExtensions' = {}
    /\ baseLen' = Len(m_xmlWriter.m_out) - 1
    /\ stream' = m_xmlWriter.m_out
    /\ calls' = <<>>
    /\ closes' = <<>>
    /\ passes' = passes + 1
    /\ UNCHANGED <<nCalls, shaVars>>

Next ==
    \/ \E name \in Names, contentType \in ContentTypes, forceOverride \in BOOLEAN :
          AddContentType(name, contentType, forceOverride)
    \/ Close
    \/ Reopen

Spec == Init /\ [][Next]_vars

\* The same writer, fed names that differ in letter case, a name without
\* '.', and the two parts of the round-trip scenario
NameUpper == "a.PNG"
NameLower == "b.png"
NameNoDot == "PNG"
NameManifest == "AppxManifest.xml"
NamesExt == {NameUpper, NameLower, NameNoDot, NameManifest}

TypeManifest == "application/vnd.ms-appx.manifest+xml"
ContentTypesExt == {TypePng, TypeManifest}

NextExt ==
    \/ \E name \in NamesExt, contentType \in ContentTypesExt, forceOverride \in BOOLEAN :
          AddContentType(name, contentType, forceOverride)
    \/ Close
    \/ Reopen

SpecExt == Init /\ [][NextExt]_vars

\* The same writer again, fed the two parts of the round-trip scenario with
\* either content type: every kind of call (a first Default, a covered
\* extension, a conflict, a forced Override) on few inputs
NamesDoc == {NameUpper, NameManifest}

NextDoc ==
    \/ \E name \in NamesDoc, contentType \in ContentTypesExt, forceOverride \in BOOLEAN :
          AddContentType(name, contentType, forceOverride)
    \/ Close
    \/ Reopen

SpecDoc == Init /\ [][NextDoc]_vars

\* The hasher, and ComputeHash beside it
NextSha ==
    \/ \E exit \in CtorExits \cup {NoExit} : ShaNew(exit)
    \/ \E buffer \in Buffers : \E cbBuffer \in AddSizes(buffer), ok \in BOOLEAN :
          ShaAdd(buffer, cbBuffer, ok)
    \/ \E ok \in BOOLEAN : ShaGet(ok)
    \/ \E buffer \in Buffers, exit \in CtorExits \cup {NoExit},
          okAdd \in BOOLEAN, okGet \in BOOLEAN :
          ShaComputeHash(buffer, exit, okAdd, okGet)

SpecSha == Init /\ [][NextSha]_vars

\* ------------------------------------------------------------------- views
\* The elements a stretch of writer output declares, in order; depth is the
\* number of elements open where the stretch starts (0 before the root, 1
\* inside it).  The root itself and its attributes are not listed.
RECURSIVE Elements(_, _, _, _)
Elements(out, i, depth, acc) ==
    IF i > Len(out) THEN acc
    ELSE LET e == out[i] IN
         CASE e.op = "Start" ->
                Elements(out, i + 1, depth + 1,
                    IF depth = 0 THEN acc
                    ELSE Append(acc, [elem |-> e.name, attrs |-> <<>>, closed |-> FALSE]))
           [] e.op = "Attr" ->
                Elements(out, i + 1, depth,
                    IF depth >= 2
                    THEN [acc EXCEPT ![Len(acc)].attrs = Append(@, <<e.name, e.value>>)]
                    ELSE acc)
           [] OTHER ->
                Elements(out, i + 1, depth - 1,
                    IF depth >= 2 THEN [acc EXCEPT ![Len(acc)].closed = TRUE] ELSE acc)

Default(contentType, ext) ==
    [elem |-> "Default", attrs |-> << <<"ContentType", contentType>>, <<"Extension", ext>> >>,
     closed |-> TRUE]
Override(contentType, partName) ==
    [elem |-> "Override", attrs |-> << <<"ContentType", contentType>>, <<"PartName", partName>> >>,
     closed |-> TRUE]

\* the value of attribute a of element e ("" when it has none)
Attr(e, a) ==
    IF \E k \in 1..Len(e.attrs) : e.attrs[k][1] = a
    THEN e.attrs[CHOOSE k \in 1..Len(e.attrs) : e.attrs[k][1] = a][2]
    ELSE ""

\* what this session has emitted, what it inherited, and the whole document
Emitted == Elements(SubSeq(m_xmlWriter.m_out, baseLen + 1, Len(m_xmlWriter.m_out)), 1, 1, <<>>)
Existing == Elements(SubSeq(m_xmlWriter.m_out, 1, baseLen), 1, 0, <<>>)
Document == Elements(m_xmlWriter.m_out, 1, 0, <<>>)
\* what call c of this session emitted
ElementsOf(c) == Elements(SubSeq(m_xmlWriter.m_out, c.from + 1, c.to), 1, 1, <<>>)

\* how many elements of es satisfy P
Count(es, P(_)) == Cardinality({k \in 1..Len(es) : P(es[k])})
IsDefaultFor(e, ext) == e.elem = "Default" /\ Attr(e, "Extension") = ext
IsOverrideFor(e, partName) == e.elem = "Override" /\ Attr(e, "PartName") = partName

\* the extension of a name, by the rule of the documentation: the text after
\* the last '.', the whole name when it has none, lower-cased
RECURSIVE AfterLastDot(_)
AfterLastDot(s) ==
    IF \A i \in 1..Len(s) : At(s, i) # "." THEN s
    ELSE AfterLastDot(Tail(s))
ExtensionOf == [n \in Names \cup NamesExt |-> ToLowerStr(AfterLastDot(n))]
Extension(name) == ExtensionOf[name]

\* call c met the guard of the well-known parts
Guarded(c) ==
    \/ c.name = "AppxSignature.p7x" /\ c.sigBefore
    \/ c.name = "AppxMetadata/CodeIntegrity.cat" /\ c.ciBefore

\* call c was made on a document not yet closed: the writer can take its element
Open(c) == c.state # "Finish"

\* the table maps ext to contentType / has an entry for ext
Maps(tbl, ext, contentType) == <<ext, contentType>> \in tbl
HasKey(tbl, ext) == \E p \in tbl : p[1] = ext

\* ------------------------------------------------------------------ claims
\* calls i..j of the session are non-forced, not guarded, and share the
\* extension and the content type of call i; their names are distinct
SameRun(i, j) ==
    /\ 1 <= i /\ i <= j /\ j <= Len(calls)
    /\ \A k \in i..j :
          /\ ~calls[k].forceOverride
          /\ ~Guarded(calls[k])
          /\ calls[k].contentType = calls[i].contentType
    /\ \A k, l \in i..j : k # l => calls[k].name # calls[l].name
    /\ LET ext == Extension(calls[i].name) IN
       \A k \in (i + 1)..j : Extension(calls[k].name) = ext

\* C1 -- Default-dedup: a run of non-forced, non-guarded calls with distinct
\* names, one extension and one content type, starting on a document not
\* yet closed where the extension is not yet in the table (as at the start
\* of a session), emits exactly one Default for the extension, by its first
\* call, and no Override; the later calls of the run emit nothing, closed
\* document or not.
C1_DefaultDedup ==
    \A i, j \in 1..Len(calls) :
        (SameRun(i, j) /\ Open(calls[i])
                       /\ ~HasKey(calls[i].tblBefore, Extension(calls[i].name))) =>
            /\ ElementsOf(calls[i]) =
                  <<Default(calls[i].contentType, Extension(calls[i].name))>>
            /\ \A k \in (i + 1)..j : ElementsOf(calls[k]) = <<>>

\* C1 witness: a session whose first two calls form such a run
C1_Witness ==
    /\ Len(calls) >= 2
    /\ SameRun(1, 2)
    /\ Open(calls[1])
    /\ Count(Emitted, LAMBDA e : e.elem = "Default") = 1

\* call c is non-forced, not guarded, and finds its extension in the table
\* with another content type
Conflicts(c) ==
    /\ ~c.forceOverride
    /\ ~Guarded(c)
    /\ HasKey(c.tblBefore, Extension(c.name))
    /\ ~Maps(c.tblBefore, Extension(c.name), c.contentType)

\* C2 -- Override-on-conflict: a non-forced call whose extension the table
\* maps to another type emits, on a document not yet closed, exactly one
\* Override for "/"+name with the call's type and no Default; closed
\* document or not, it leaves the table as it was.
C2_OverrideOnConflict ==
    \A i \in 1..Len(calls) :
        Conflicts(calls[i]) =>
            /\ Open(calls[i]) => ElementsOf(calls[i]) =
                  <<Override(calls[i].contentType, "/" \o calls[i].name)>>
            /\ calls[i].tblAfter = calls[i].tblBefore

\* C2 witness: a conflicting call has been made and the Default of its
\* extension is still the first type
C2_Witness ==
    \E i \in 1..Len(calls) :
        /\ Conflicts(calls[i])
        /\ Open(calls[i])
        /\ \E p \in m_defaultExtensions :
              p[1] = Extension(calls[i].name) /\ p[2] # calls[i].contentType

\* the (Extension, ContentType) pairs of the Default elements of es
DefaultPairs(es) ==
    {<<Attr(es[k], "Extension"), Attr(es[k], "ContentType")>> :
        k \in {n \in 1..Len(es) : es[n].elem = "Default"}}

\* C3 -- First declaration wins: the table holds at most one type per
\* extension, no call changes or removes an entry, and the table is exactly
\* the set of (Extension, ContentType) pairs of the Defaults emitted in the
\* session.
C3_FirstDeclarationWins ==
    /\ \A p, q \in m_defaultExtensions : p[1] = q[1] => p = q
    /\ \A i \in 1..Len(calls) :
          /\ calls[i].tblBefore \subseteq calls[i].tblAfter
          /\ \A p, q \in calls[i].tblAfter : p[1] = q[1] => p = q
          /\ calls[i].tblAfter =
                (IF i < Len(calls) THEN calls[i + 1].tblBefore ELSE m_defaultExtensions)
    /\ m_defaultExtensions = DefaultPairs(Emitted)

\* C3 witness: an entry was inserted and a later call of the same extension
\* asked for another type
C3_Witness ==
    \E i, j \in 1..Len(calls) :
        /\ i < j
        /\ calls[i].tblAfter # calls[i].tblBefore
        /\ Conflicts(calls[j])
        /\ Extension(calls[j].name) = Extension(calls[i].name)

\* C4 -- Forced override always emits: a forced call that the guard of the
\* well-known parts does not stop emits, on a document not yet closed,
\* exactly one Override for "/"+name with its type, whatever the table holds
\* and whatever was emitted for the name before; closed document or not, it
\* leaves the table as it was.
C4_ForcedOverrideEmits ==
    \A i \in 1..Len(calls) :
        (calls[i].forceOverride /\ ~Guarded(calls[i])) =>
            /\ Open(calls[i]) => ElementsOf(calls[i]) =
                  <<Override(calls[i].contentType, "/" \o calls[i].name)>>
            /\ calls[i].tblAfter = calls[i].tblBefore

\* C4 witness: a forced call for a part whose extension is in the table
\* with the same type, so that a non-forced call would have emitted nothing
C4_Witness ==
    \E i \in 1..Len(calls) :
        /\ calls[i].forceOverride
        /\ ~Guarded(calls[i])
        /\ Open(calls[i])
        /\ Maps(calls[i].tblBefore, Extension(calls[i].name), calls[i].contentType)
        /\ Count(Emitted, LAMBDA e : IsOverrideFor(e, "/" \o calls[i].name)) >= 1

\* call c emitted nothing, changed neither the table nor a flag, and did not throw
SilentNoOp(c) ==
    /\ ElementsOf(c) = <<>>
    /\ c.to = c.from
    /\ c.tblAfter = c.tblBefore
    /\ c.sigAfter = c.sigBefore /\ c.ciAfter = c.ciBefore
    /\ ~c.thrown

\* C5 (as stated) -- a call is a silent no-op if and only if it is a
\* well-known part whose own flag is set.
C5_GuardIffNoOp ==
    \A i \in 1..Len(calls) : SilentNoOp(calls[i]) <=> Guarded(calls[i])

\* C5 (amended) -- a call for a well-known part whose own flag is set is a
\* silent no-op, for every content type and both values of forceOverride;
\* any other call is a silent no-op exactly when it is non-forced and the
\* table already maps its extension to its content type.  One part's flag
\* stops neither the other part nor any other name.
C5_GuardNoOp ==
    \A i \in 1..Len(calls) :
        SilentNoOp(calls[i]) <=>
            \/ Guarded(calls[i])
            \/ /\ ~calls[i].forceOverride
               /\ Maps(calls[i].tblBefore, Extension(calls[i].name), calls[i].contentType)

\* C5 witness: in a session where exactly one flag is set, a forced call
\* for the part of the set flag emitted nothing
C5_Witness ==
    /\ m_hasSignatureOverride # m_hasCIOverride
    /\ \E i \in 1..Len(calls) :
          Guarded(calls[i]) /\ calls[i].forceOverride /\ ElementsOf(calls[i]) = <<>>

\* C6 -- Close invariant: in a session of either constructor, after any
\* calls, the first Close succeeds and leaves the XML writer in Finish;
\* every later Close fails.
C6_CloseInvariant ==
    /\ Len(closes) >= 1 => (~closes[1] /\ m_xmlWriter.m_state = Finish)
    /\ \A k \in 2..Len(closes) : closes[k]
    /\ Len(closes) = 0 => m_xmlWriter.m_state # Finish

\* C6 witness: a reopened session that added a part and called Close twice
C6_Witness ==
    /\ passes >= 2
    /\ Len(calls) >= 1
    /\ Len(closes) = 2

\* C7 (as stated) -- No duplicate declarations: the session's declarations
\* hold no two Defaults with one Extension and no two Overrides with one
\* PartName.
C7_NoDuplicateDeclarations ==
    \A k, l \in 1..Len(Emitted) :
        k # l =>
            /\ ~(Emitted[k].elem = "Default" /\ Emitted[l].elem = "Default"
                 /\ Attr(Emitted[k], "Extension") = Attr(Emitted[l], "Extension"))
            /\ ~(Emitted[k].elem = "Override" /\ Emitted[l].elem = "Override"
                 /\ Attr(Emitted[k], "PartName") = Attr(Emitted[l], "PartName"))

\* C7 (amended) -- the session's declarations hold no two Defaults with one
\* Extension; Overrides are not deduplicated: the session holds one Override
\* with PartName "/"+name for each non-guarded call for name, on the document
\* not yet closed, that is forced or conflicts with the table entry of its
\* extension.
C7_NoDuplicateDefaults ==
    /\ \A k, l \in 1..Len(Emitted) :
          (k # l /\ Emitted[k].elem = "Default" /\ Emitted[l].elem = "Default") =>
              Attr(Emitted[k], "Extension") # Attr(Emitted[l], "Extension")
    /\ \A n \in {calls[i].name : i \in 1..Len(calls)} :
          Count(Emitted, LAMBDA e : IsOverrideFor(e, "/" \o n)) =
              Cardinality({i \in 1..Len(calls) :
                  /\ calls[i].name = n
                  /\ ~Guarded(calls[i])
                  /\ Open(calls[i])
                  /\ (calls[i].forceOverride \/ Conflicts(calls[i]))})

\* C7 witness: two calls of one extension and one type left a single
\* Default in the session
C7_Witness ==
    /\ Len(calls) >= 2
    /\ \E i, j \in 1..Len(calls) :
          /\ i < j
          /\ ~calls[i].forceOverride /\ ~calls[j].forceOverride
          /\ ~Guarded(calls[i]) /\ ~Guarded(calls[j])
          /\ Extension(calls[i].name) = Extension(calls[j].name)
          /\ Count(Emitted, LAMBDA e : IsDefaultFor(e, Extension(calls[i].name))) = 1

\* C8 -- Re-opening must not duplicate entries: in a reopened session whose
\* existing document holds a Default for e with type T, a non-forced call
\* with extension e and type T emits no Default, and the document holds
\* exactly one Default for e.
C8_ReopenNoDuplicateDefault ==
    \A i \in 1..Len(calls) :
        (/\ passes >= 2
         /\ ~calls[i].forceOverride
         /\ ~Guarded(calls[i])
         /\ Count(Existing, LAMBDA e : IsDefaultFor(e, Extension(calls[i].name))) = 1
         /\ Count(Existing, LAMBDA e :
                e = Default(calls[i].contentType, Extension(calls[i].name))) = 1) =>
            /\ \A k \in 1..Len(ElementsOf(calls[i])) : ElementsOf(calls[i])[k].elem # "Default"
            /\ Count(Document, LAMBDA e : IsDefaultFor(e, Extension(calls[i].name))) = 1

WellKnownParts == {"AppxSignature.p7x", "AppxMetadata/CodeIntegrity.cat"}

\* C9 -- Idempotence across passes: a reopened session whose existing
\* document holds the Override of a well-known part emits nothing for a
\* call for that part, so the document keeps as many Overrides for it as it
\* had: exactly one after a pass that emitted it once, however many passes
\* follow.
C9_IdempotentAcrossPasses ==
    \A part \in WellKnownParts :
        LET had == Count(Existing, LAMBDA e : IsOverrideFor(e, "/" \o part)) IN
        (passes >= 2 /\ had >= 1) =>
            /\ \A i \in 1..Len(calls) : calls[i].name = part => ElementsOf(calls[i]) = <<>>
            /\ Count(Document, LAMBDA e : IsOverrideFor(e, "/" \o part)) = had

\* C9 witness: a reopened session over a document with exactly one Override
\* of the signature part, in which the part was added again, forced, and the
\* document still holds exactly one
C9_Witness ==
    /\ passes >= 2
    /\ Count(Existing, LAMBDA e : IsOverrideFor(e, "/AppxSignature.p7x")) = 1
    /\ \E i \in 1..Len(calls) :
          calls[i].name = "AppxSignature.p7x" /\ calls[i].forceOverride
    /\ Count(Document, LAMBDA e : IsOverrideFor(e, "/AppxSignature.p7x")) = 1

\* some element of es has an attribute whose value is v
HasAttrValue(es, v) ==
    \E k \in 1..Len(es) : \E a \in 1..Len(es[k].attrs) : es[k].attrs[a][2] = v

\* C10 (as stated) -- in a reopened session each flag is set if and only if
\* the existing document holds an Override for the flag's part.
C10_FlagsIffOverride ==
    passes >= 2 =>
        /\ m_hasSignatureOverride <=>
              Count(Existing, LAMBDA e : IsOverrideFor(e, "/AppxSignature.p7x")) >= 1
        /\ m_hasCIOverride <=>
              Count(Existing, LAMBDA e : IsOverrideFor(e, "/AppxMetadata/CodeIntegrity.cat")) >= 1

\* C10 (amended) -- in a reopened session each flag is set if and only if
\* the text of the existing document holds the part name, with its leading
\* '/', between double quotes: that is, if and only if some attribute of
\* some element of it (the PartName of an Override, but also a ContentType)
\* has exactly that value.
C10_FlagsIffQuotedValue ==
    passes >= 2 =>
        /\ m_hasSignatureOverride <=> HasAttrValue(Existing, "/AppxSignature.p7x")
        /\ m_hasCIOverride <=> HasAttrValue(Existing, "/AppxMetadata/CodeIntegrity.cat")

\* C10 witness: a reopened session whose signature flag is set by a
\* ContentType value, the existing document holding no Override for the part
C10_Witness ==
    /\ passes >= 2
    /\ m_hasSignatureOverride
    /\ Count(Existing, LAMBDA e : IsOverrideFor(e, "/AppxSignature.p7x")) = 0

\* s holds no upper-case letter
NoUpper(s) == \A i \in 1..Len(s) : \A u \in 1..Len(UpperCase) : At(s, i) # At(UpperCase, u)

\* calls i and j are non-forced, not guarded, of one content type, and
\* their extensions differ in letter case only
CaseTwins(i, j) ==
    /\ ~calls[i].forceOverride /\ ~calls[j].forceOverride
    /\ ~Guarded(calls[i]) /\ ~Guarded(calls[j])
    /\ calls[i].contentType = calls[j].contentType
    /\ AfterLastDot(calls[i].name) # AfterLastDot(calls[j].name)
    /\ Extension(calls[i].name) = Extension(calls[j].name)

\* C11 -- Extension case-insensitivity: table keys and emitted Extension
\* attributes are lower-cased; of two non-forced calls of one type whose
\* extensions differ in letter case only, the first (the extension not yet
\* in the table, the document not yet closed) emits the one Default, with
\* the lower-cased extension, and the second emits nothing, whichever case
\* came first.
C11_ExtensionCaseInsensitive ==
    /\ \A p \in m_defaultExtensions : NoUpper(p[1])
    /\ LET em == Emitted IN
       /\ \A k \in 1..Len(em) : em[k].elem = "Default" => NoUpper(Attr(em[k], "Extension"))
       /\ \A i, j \in 1..Len(calls) :
             (i < j /\ CaseTwins(i, j) /\ Open(calls[i])
                    /\ ~HasKey(calls[i].tblBefore, Extension(calls[i].name))) =>
                 /\ ElementsOf(calls[i]) =
                       <<Default(calls[i].contentType, Extension(calls[i].name))>>
                 /\ ElementsOf(calls[j]) = <<>>
                 /\ Count(em, LAMBDA e : IsDefaultFor(e, Extension(calls[i].name))) = 1

\* C11 witness: "b.png" first, then "a.PNG" with the same type, and a
\* single Default, for "png"
C11_Witness ==
    /\ Len(calls) = 2
    /\ calls[1].name = "b.png" /\ calls[2].name = "a.PNG"
    /\ CaseTwins(1, 2)
    /\ Emitted = <<Default(calls[1].contentType, "png")>>

\* the session is a fresh one whose calls are all non-forced with pairwise
\* distinct lower-cased extensions, and it has been closed after them
DistinctFreshClosed ==
    /\ passes = 1
    /\ Len(closes) >= 1
    /\ \A i \in 1..Len(calls) :
          ~calls[i].forceOverride /\ ~Guarded(calls[i]) /\ Open(calls[i])
    /\ \A i, j \in 1..Len(calls) :
          i # j => Extension(calls[i].name) # Extension(calls[j].name)

\* the text of one Default element
DefaultText(contentType, ext) ==
    "<Default ContentType=\"" \o contentType \o "\" Extension=\"" \o ext \o "\"/>"

RECURSIVE DefaultsText(_, _)
DefaultsText(cs, i) ==
    IF i > Len(cs) THEN ""
    ELSE DefaultText(cs[i].contentType, Extension(cs[i].name)) \o DefaultsText(cs, i + 1)

\* C12 -- Fresh round trip: a fresh writer, non-forced calls with pairwise
\* distinct lower-cased extensions, then Close: the document's root is Types
\* with the content-types namespace attribute, and it holds exactly one
\* Default per call, in call order, and no Override.
C12_FreshRoundTrip ==
    DistinctFreshClosed =>
        /\ m_xmlWriter.m_state = "Finish"
        /\ m_xmlWriter.m_out[1] = [op |-> "Start", name |-> "Types", value |-> ""]
        /\ m_xmlWriter.m_out[2] =
              [op |-> "Attr", name |-> "xmlns",
               value |-> "http://schemas.openxmlformats.org/package/2006/content-types"]
        /\ Document =
              [i \in 1..Len(calls) |->
                  Default(calls[i].contentType, Extension(calls[i].name))]
        /\ CreateStringFromStream(m_xmlWriter.m_out) =
              "<Types xmlns=\"http://schemas.openxmlformats.org/package/2006/content-types\""
              \o (IF calls = <<>> THEN "/>"
                  ELSE ">" \o DefaultsText(calls, 1) \o "</Types>")

\* C12 witness: the round-trip scenario, a part ".PNG" and the manifest
\* added to a fresh writer that was then closed
C12_Witness ==
    /\ DistinctFreshClosed
    /\ Len(calls) = 2
    /\ calls[1].name = "a.PNG" /\ calls[2].name = "AppxManifest.xml"
    /\ Len(Document) = 2
    /\ Attr(Document[1], "Extension") = "png" /\ Attr(Document[2], "Extension") = "xml"

\* what the calls i.. of the session emitted, in call order
RECURSIVE EmittedByCalls(_)
EmittedByCalls(i) ==
    IF i > Len(calls) THEN <<>>
    ELSE ElementsOf(calls[i]) \o EmittedByCalls(i + 1)

\* C13 -- Reopen preserves previous entries: throughout a reopened session
\* the existing children are exactly the children of the document the
\* session was given, unchanged and in their order; the session's elements
\* are those of its calls, in call order; and the document, closed or not,
\* is the existing children followed by them.
C13_ReopenPreserves ==
    passes >= 2 =>
        /\ Existing = Elements(stream, 1, 0, <<>>)
        /\ SubSeq(m_xmlWriter.m_out, 1, baseLen) = SubSeq(stream, 1, Len(stream) - 1)
        /\ Emitted = EmittedByCalls(1)
        /\ Document = Existing \o Emitted

\* C13 witness: a reopened session that inherited a child, added one, and
\* was closed
C13_Witness ==
    /\ passes >= 2
    /\ Len(Existing) >= 1
    /\ Len(Emitted) >= 1
    /\ Len(closes) >= 1
    /\ Document = Existing \o Emitted

\* s holds no '.'
NoDot(s) == \A i \in 1..Len(s) : At(s, i) # "."

\* what a non-forced, non-guarded call c does when key is its extension:
\* on a document not yet closed it declares what the key needs; on a closed
\* one it returns when the key is covered and fails in the writer otherwise
ActsOnKey(c, key) ==
    IF Open(c)
    THEN /\ ~c.thrown
         /\ IF ~HasKey(c.tblBefore, key)
            THEN /\ ElementsOf(c) = <<Default(c.contentType, key)>>
                 /\ c.tblAfter = c.tblBefore \cup {<<key, c.contentType>>}
            ELSE /\ c.tblAfter = c.tblBefore
                 /\ ElementsOf(c) =
                       (IF Maps(c.tblBefore, key, c.contentType) THEN <<>>
                        ELSE <<Override(c.contentType, "/" \o c.name)>>)
    ELSE /\ c.thrown <=> ~Maps(c.tblBefore, key, c.contentType)
         /\ c.tblAfter = c.tblBefore
         /\ ElementsOf(c) = <<>>

\* C14 -- Names without a '.': a non-forced, non-guarded call whose name
\* holds no '.' is, on a document not yet closed, not rejected, and closed
\* document or not it is looked up as a call whose extension is the
\* whole name, lower-cased: its first occurrence emits a Default with that
\* Extension and records the key, and the key is the one of any dotted name
\* with that extension.
C14_NameWithoutDot ==
    \A i \in 1..Len(calls) :
        (~calls[i].forceOverride /\ ~Guarded(calls[i]) /\ NoDot(calls[i].name)) =>
            ActsOnKey(calls[i], ToLowerStr(calls[i].name))

\* C14 witness: "b.png" declared the Default of "png", then the name "PNG"
\* met that entry with another type and got an Override
C14_Witness ==
    /\ Len(calls) = 2
    /\ calls[1].name = "b.png" /\ ~calls[1].forceOverride
    /\ calls[2].name = "PNG" /\ ~calls[2].forceOverride
    /\ ElementsOf(calls[1]) = <<Default(calls[1].contentType, "png")>>
    /\ ElementsOf(calls[2]) = <<Override(calls[2].contentType, "/PNG")>>

\* the flags as the calls of the session saw and left them
FlagsAsRecorded ==
    /\ passes = 1 => (~m_hasSignatureOverride /\ ~m_hasCIOverride)
    /\ \A i \in 1..Len(calls) :
          /\ calls[i].sigAfter = calls[i].sigBefore
          /\ calls[i].ciAfter = calls[i].ciBefore
          /\ calls[i].sigAfter = m_hasSignatureOverride
          /\ calls[i].ciAfter = m_hasCIOverride
    /\ passes = 1 =>
          \A i \in 1..Len(calls) :
              /\ ~Guarded(calls[i])
              /\ (calls[i].name \in WellKnownParts /\ calls[i].forceOverride
                     /\ Open(calls[i])) =>
                    ElementsOf(calls[i]) =
                        <<Override(calls[i].contentType, "/" \o calls[i].name)>>

\* C15 -- Flags are fixed for the session: both flags are false on a fresh
\* writer, and no AddContentType or Close of a session changes a flag; so
\* on a fresh writer the guard never fires and every forced call for a
\* well-known part, on the document not yet closed, emits its Override.
C15_FlagsFixed ==
    /\ []FlagsAsRecorded
    /\ [][ (passes' = passes) =>
              /\ m_hasSignatureOverride' = m_hasSignatureOverride
              /\ m_hasCIOverride' = m_hasCIOverride ]_vars

\* C15 witness: a fresh writer on which the signature part was added twice,
\* forced, and got two Overrides
C15_Witness ==
    /\ passes = 1
    /\ Len(calls) = 2
    /\ \A i \in 1..2 : calls[i].name = "AppxSignature.p7x" /\ calls[i].forceOverride
    /\ Count(Emitted, LAMBDA e : IsOverrideFor(e, "/AppxSignature.p7x")) = 2

\* the writer calls that call c of the session made
WritesOf(c) == SubSeq(m_xmlWriter.m_out, c.from + 1, c.to)

\* how many of the writer calls ws are op
Ops(ws, op) == Cardinality({k \in 1..Len(ws) : ws[k].op = op})

\* C16 -- Balanced emission: a call emits no element or one, started and
\* closed within the call (a call on a closed document emits none: it
\* returns, or it fails in the writer before anything is written); so
\* before Close the writer has exactly the root open between operations,
\* and Close closes the root, never a child.
C16_BalancedEmission ==
    /\ \A i \in 1..Len(calls) :
          LET ws == WritesOf(calls[i]) IN
          /\ calls[i].thrown => ~Open(calls[i])
          /\ ~Open(calls[i]) => ws = <<>>
          /\ \/ ws = <<>>
             \/ /\ ws[1].op = "Start" /\ ws[Len(ws)].op = "Close"
                /\ Ops(ws, "Start") = 1 /\ Ops(ws, "Close") = 1
                /\ Len(ElementsOf(calls[i])) = 1
                /\ ElementsOf(calls[i])[1].closed
    /\ Len(closes) = 0 => m_xmlWriter.m_elements = <<"Types">>
    /\ Len(closes) >= 1 =>
          /\ m_xmlWriter.m_elements = <<>>
          /\ m_xmlWriter.m_out[Len(m_xmlWriter.m_out)].op = "Close"
          /\ Emitted = EmittedByCalls(1)

\* C16 witness: a session with a call that emitted nothing and a call that
\* emitted one element, closed afterwards
C16_Witness ==
    /\ Len(closes) >= 1
    /\ \E i, j \in 1..Len(calls) :
          WritesOf(calls[i]) = <<>> /\ Len(ElementsOf(calls[j])) = 1
    /\ m_xmlWriter.m_elements = <<>>

W(op, name, value) == [op |-> op, name |-> name, value |-> value]

\* C17 -- Shape of an emitted element: a call writes nothing, or a Default:
\* StartElement(Default), ContentType, Extension, CloseElement, or an
\* Override: StartElement(Override), ContentType, PartName = "/" and the
\* name exactly as passed, CloseElement.
C17_ElementShape ==
    \A i \in 1..Len(calls) :
        LET c == calls[i] IN
        \/ WritesOf(c) = <<>>
        \/ WritesOf(c) = << W("Start", "Default", ""),
                            W("Attr", "ContentType", c.contentType),
                            W("Attr", "Extension", Extension(c.name)),
                            W("Close", "", "") >>
        \/ WritesOf(c) = << W("Start", "Override", ""),
                            W("Attr", "ContentType", c.contentType),
                            W("Attr", "PartName", "/" \o c.name),
                            W("Close", "", "") >>

\* C17 witness: "a.PNG" got a Default for "png" and then, forced, an
\* Override for "/a.PNG"
C17_Witness ==
    /\ Len(calls) = 2
    /\ calls[1].name = "a.PNG" /\ calls[2].name = "a.PNG"
    /\ Len(WritesOf(calls[1])) = 4 /\ Len(WritesOf(calls[2])) = 4
    /\ WritesOf(calls[1])[1].name = "Default"
    /\ WritesOf(calls[1])[3].value = "png"
    /\ WritesOf(calls[2])[1].name = "Override"
    /\ WritesOf(calls[2])[3].value = "/a.PNG"

\* the bytes BCryptHashData was handed by the Add of log entry e: the
\* buffer, up to the low 32 bits of its size
Handed(e) == SubSeq(e.buffer, 1, e.cbBuffer.lo)

\* the data the successful Add calls before call i fed to the hasher
RECURSIVE FedBefore(_)
FedBefore(i) ==
    IF i <= 1 THEN <<>>
    ELSE FedBefore(i - 1) \o
         (IF shaLog[i - 1].op = "Add" /\ ~shaLog[i - 1].thrown
          THEN Handed(shaLog[i - 1]) ELSE <<>>)

\* C18 -- SHA256 hasher is single-use: Add and Get on a finished hasher
\* throw before anything is hashed; a successful Get gives the hash of the
\* data the Adds handed to the platform (of a buffer of 2^32 bytes or more,
\* the bytes its size counts in its low 32 bits) and releases the context, so every
\* later Add or Get on the instance throws; a ComputeHash that returns has
\* worked on a hasher of its own, with exactly one Add and then one Get,
\* whatever the state of another instance, and one that throws has stopped
\* at its first failing step.
C18_HasherSingleUse ==
    /\ \A i \in 1..Len(shaLog) :
          shaLog[i].op \in {"Add", "Get"} =>
              /\ shaLog[i].finished => (shaLog[i].thrown /\ ~shaLog[i].called)
              /\ (shaLog[i].op = "Get" /\ ~shaLog[i].thrown) =>
                    /\ shaLog[i].hash.alg = "SHA256"
                    /\ shaLog[i].hash.of = FedBefore(i)
                    /\ \A j \in (i + 1)..Len(shaLog) :
                          shaLog[j].finished /\ shaLog[j].thrown /\ ~shaLog[j].called
              /\ ~shaLog[i].finished =>
                    (shaLog[i].called /\ (shaLog[i].thrown <=> ~shaLog[i].ok))
    /\ Constructed =>
          (~context.live <=>
              \E i \in 1..Len(shaLog) : shaLog[i].op = "Get" /\ ~shaLog[i].thrown)
    /\ \A k \in 1..Len(computes) :
          /\ computes[k].returned =>
                /\ computes[k].ops = <<"New", "Add", "Get">>
                /\ computes[k].hash.alg = "SHA256"
                /\ computes[k].hash.of = computes[k].buffer
          /\ computes[k].ops \in {<<"New">>, <<"New", "Add">>, <<"New", "Add", "Get">>}

\* C18 witness: a hasher constructed, data added, the hash got, a later Add
\* thrown, and a ComputeHash that returned while the instance was finished
C18_Witness ==
    /\ Len(shaLog) = 4
    /\ shaLog[1].op = "New" /\ ~shaLog[1].thrown
    /\ shaLog[2].op = "Add" /\ ~shaLog[2].thrown
    /\ shaLog[3].op = "Get" /\ ~shaLog[3].thrown
    /\ shaLog[4].op = "Add" /\ shaLog[4].thrown
    /\ \E k \in 1..Len(computes) : computes[k].returned /\ computes[k].whileFinished

====
